---- MODULE Spec2Model ----
(***************************************************************************)
(* vs.logger: the Logger (sequencer, file sink, datagram publisher) of     *)
(* src/lib/logger.cpp and the relay worker (udsBridgeThread) with the      *)
(* WebSocket connection set of Logger::start_server.                       *)
(*                                                                         *)
(* Text is modelled as sequences of bytes (0..255).  The file is the       *)
(* sequence of chunks appended to it, one per flush; the rendezvous        *)
(* channel is the receive queue of the bound AF_UNIX datagram socket.      *)
(***************************************************************************)
EXTENDS Integers, Sequences, FiniteSets, TLC

(***************************************************************************)
(* Bounds of the model.                                                    *)
(***************************************************************************)
NumThreads == 2
MaxCalls == 2
MaxClock == 1
QueueCap == 1
NumConns == 2
MaxDatagrams == 2

Threads == 1..NumThreads
\* crow::websocket::connection objects, named by their addresses.
Conns == 1..NumConns

\* constexpr size_t BUFFER_SIZE of the relay worker.
BUFFER_SIZE == 1024

(***************************************************************************)
(* Bytes and text helpers.                                                 *)
(***************************************************************************)
RECURSIVE Dec(_)
\* std::format("{}", n) / operator<<(uint64_t): the decimal digits of n.
Dec(n) == IF n < 10 THEN <<48 + n>> ELSE Dec(n \div 10) \o <<48 + (n % 10)>>

IsDigit(b) == b >= 48 /\ b <= 57

\* TRUE iff sub occurs in s at position i.
OccursAt(sub, s, i) ==
    /\ i + Len(sub) - 1 <= Len(s)
    /\ \A j \in 1..Len(sub) : s[i + j - 1] = sub[j]

RECURSIVE FindFrom(_, _, _)
\* First position of sub in s at or after i, 0 when there is none.
FindFrom(sub, s, i) ==
    IF i + Len(sub) - 1 > Len(s) THEN 0
    ELSE IF s[i] = sub[1] /\ OccursAt(sub, s, i) THEN i
    ELSE FindFrom(sub, s, i + 1)

Find(sub, s) == FindFrom(sub, s, 1)

RECURSIVE ReadNat(_, _, _)
\* The decimal number that starts at s[i], acc being the value read so far.
ReadNat(s, i, acc) ==
    IF i <= Len(s) /\ IsDigit(s[i]) THEN ReadNat(s, i + 1, acc * 10 + (s[i] - 48))
    ELSE acc

\* The number that follows the first occurrence of key in s, -1 without one.
FieldAfter(key, s) ==
    LET p == Find(key, s)
    IN  IF p = 0 THEN -1 ELSE ReadNat(s, p + Len(key), 0)

(***************************************************************************)
(* to_string(type_t), to_string(severity_t).                               *)
(***************************************************************************)
Types == {"OK", "INFO", "WARNING", "ERROR", "PANIC"}
Severities == {"NONE", "LOW", "MID", "HIGH"}

TypeToString(type) ==
    CASE type = "OK"      -> <<79, 75>>
      [] type = "INFO"    -> <<73, 78, 70, 79>>
      [] type = "WARNING" -> <<87, 65, 82, 78, 73, 78, 71>>
      [] type = "ERROR"   -> <<69, 82, 82, 79, 82>>
      [] type = "PANIC"   -> <<80, 65, 78, 73, 67>>
      [] OTHER            -> <<85, 78, 75, 78, 79, 87, 78>>

SevToString(sev) ==
    CASE sev = "NONE" -> <<78, 79, 78, 69>>
      [] sev = "LOW"  -> <<76, 79, 87>>
      [] sev = "MID"  -> <<77, 73, 68>>
      [] sev = "HIGH" -> <<72, 73, 71, 72>>
      [] OTHER        -> <<85, 78, 75, 78, 79, 87, 78>>

(***************************************************************************)
(* The two sink encodings.                                                 *)
(***************************************************************************)
\* " Seq: "
SeqLabel == <<32, 83, 101, 113, 58, 32>>
\* ,"seq_id":
SeqIdKey == <<44, 34, 115, 101, 113, 95, 105, 100, 34, 58>>

\* "[{}], {{{}}}, Activity: {} Seq: {} Parent: {} -- {}\n"
FormatLine(entry, message) ==
    <<91>> \o TypeToString(entry.type)
      \o <<93, 44, 32, 123>> \o SevToString(entry.sev)
      \o <<125, 44, 32, 65, 99, 116, 105, 118, 105, 116, 121, 58, 32>>
      \o Dec(entry.activity_uuid)
      \o SeqLabel \o Dec(entry.seq_id)
      \o <<32, 80, 97, 114, 101, 110, 116, 58, 32>> \o Dec(entry.parent_uuid)
      \o <<32, 45, 45, 32>> \o message \o <<10>>

\* {"timestamp":T,"type":"..","severity":"..","activity_uuid":A,"seq_id":S,
\*  "parent_uuid":P,"message":".."}  -- the message is inserted as it is.
JsonPayload(entry, message) ==
    <<123, 34, 116, 105, 109, 101, 115, 116, 97, 109, 112, 34, 58>>
      \o Dec(entry.timestamp)
      \o <<44, 34, 116, 121, 112, 101, 34, 58, 34>> \o TypeToString(entry.type)
      \o <<34, 44, 34, 115, 101, 118, 101, 114, 105, 116, 121, 34, 58, 34>>
      \o SevToString(entry.sev)
      \o <<34, 44, 34, 97, 99, 116, 105, 118, 105, 116, 121, 95, 117, 117, 105,
           100, 34, 58>> \o Dec(entry.activity_uuid)
      \o SeqIdKey \o Dec(entry.seq_id)
      \o <<44, 34, 112, 97, 114, 101, 110, 116, 95, 117, 117, 105, 100, 34, 58>>
      \o Dec(entry.parent_uuid)
      \o <<44, 34, 109, 101, 115, 115, 97, 103, 101, 34, 58, 34>> \o message
      \o <<34, 125>>

RECURSIVE escape_json(_)
\* escape_json of the second publisher implementation: the quote, the
\* backslash and \b \f \n \r \t are escaped, every other byte is copied.
escape_json(s) ==
    IF s = <<>> THEN <<>>
    ELSE LET c == Head(s)
             out == CASE c = 34 -> <<92, 34>>
                      [] c = 92 -> <<92, 92>>
                      [] c = 8  -> <<92, 98>>
                      [] c = 12 -> <<92, 102>>
                      [] c = 10 -> <<92, 110>>
                      [] c = 13 -> <<92, 114>>
                      [] c = 9  -> <<92, 116>>
                      [] OTHER  -> <<c>>
         IN  out \o escape_json(Tail(s))

\* The payload of the second publisher implementation:
\* {"timestamp":T,"type":"..","severity":"..","activity_uuid":"A","seq_id":S,
\*  "parent_uuid":"P","message":".."}  -- the two ids are quoted and the
\* message goes through escape_json.
JsonPayloadEscaped(entry, message) ==
    <<123, 34, 116, 105, 109, 101, 115, 116, 97, 109, 112, 34, 58>>
      \o Dec(entry.timestamp)
      \o <<44, 34, 116, 121, 112, 101, 34, 58, 34>> \o TypeToString(entry.type)
      \o <<34, 44, 34, 115, 101, 118, 101, 114, 105, 116, 121, 34, 58, 34>>
      \o SevToString(entry.sev)
      \o <<34, 44, 34, 97, 99, 116, 105, 118, 105, 116, 121, 95, 117, 117, 105,
           100, 34, 58, 34>> \o Dec(entry.activity_uuid)
      \o <<34>> \o SeqIdKey \o Dec(entry.seq_id)
      \o <<44, 34, 112, 97, 114, 101, 110, 116, 95, 117, 117, 105, 100, 34, 58,
           34>> \o Dec(entry.parent_uuid)
      \o <<34, 44, 34, 109, 101, 115, 115, 97, 103, 101, 34, 58, 34>>
      \o escape_json(message)
      \o <<34, 125>>

(***************************************************************************)
(* State.                                                                  *)
(***************************************************************************)
VARIABLES
    \* Logger members (logger.hpp, lines 63-73)
    logFilePath,    \* std::optional path of the file sink
    udsPath,        \* std::optional path of the rendezvous address
    logFileOpen,    \* logFileStream.is_open()
    udsSock,        \* descriptor of the publisher's datagram socket, -1 if none
    seq_id,         \* sequence number of the last entry
    writeMutex,     \* owner of the ordering lock, NoOwner when free
    \* callers of Logger::log
    pc,             \* position of each calling thread inside log()
    args,           \* arguments of the call each thread is making
    entry,          \* the log_entry_t local of each call
    reg,            \* register of each thread holding seq_id during ++seq_id
    started,        \* number of log() calls made so far
    clock,          \* last reading of std::chrono::steady_clock, microseconds
    \* what the sinks have done
    file,           \* the log file: the chunks appended to it, one per flush
    cerr,           \* diagnostics written to std::cerr
    sendLog,        \* the sendto calls made, in order: payload and result
    entries,        \* the entries built, in the order seq_id was assigned
    \* rendezvous channel
    bound,          \* a receiver is bound at udsPath
    queue,          \* receive queue of the bound socket
    \* relay worker (udsBridgeThread) and web-server thread
    bpc,            \* position of the relay worker
    dgram,          \* the datagram recv took from the queue, as it was sent
    buffer,         \* the bytes recv stored in buffer[0..n-1]
    wsConnections,  \* std::set of live connections
    wsMutex,        \* owner of the subscriber-set lock
    it,             \* iterator of the broadcast loop
    conn,           \* per connection: transport state and handler position
    \* what the relay has done
    relayed,        \* per relay event: the datagram as sent, the live set and
                    \* the position of the datagram in received
    inbox,          \* per connection: the frames send_text delivered
    failed,         \* <<connection, relay event>> pairs whose send_text threw
    regAt,          \* per connection: relay events begun when onopen returned
    polls,          \* number of times the worker slept after recv
    published,      \* datagrams sent to the address by other publishers
    received,       \* the datagrams recv has returned, in order
    \* lifetimes and the file system
    destroyed,      \* ~Logger has run
    webServer,      \* the web-server thread, owner of wsConnections and wsMutex
    linked,         \* the path of the log file still names the log file
    rival,          \* position of the worker of another Broker on udsPath
    rivalBound,     \* udsPath names the socket of that other worker
    \* the viewer page of each connection (second implementation)
    logStore,       \* per connection: the logStore array of its page
    viewed          \* per connection: the frames onmessage has handled

loggerVars == <<logFilePath, udsPath, logFileOpen, udsSock, seq_id, writeMutex,
                pc, args, entry, reg, started, clock, file, cerr, sendLog,
                entries>>
channelVars == <<bound, queue>>
brokerVars == <<bpc, dgram, buffer, wsConnections, wsMutex, it, conn, relayed,
                inbox, failed, regAt, polls, published, received>>
lifeVars == <<destroyed, webServer, linked, rival, rivalBound>>
viewerVars == <<logStore, viewed>>
vars == <<loggerVars, channelVars, brokerVars, lifeVars, viewerVars>>

NoOwner == <<>>
NoPath == "nullopt"
NoEntry == [type |-> "OK", sev |-> "NONE", timestamp |-> 0, activity_uuid |-> 0,
            seq_id |-> 0, parent_uuid |-> 0, offset |-> 0, length |-> 0]
NoArgs == [type |-> "OK", sev |-> "NONE", message |-> <<>>,
           activity_uuid |-> 0, parent_uuid |-> 0]

\* The calls of the model: type, severity, message, activity id, parent id.
\* Odd threads log "Test log message number 1" with activity 12345 as
\* example.cpp does; even threads log a PANIC whose message has a newline.
LogInput(t) ==
    IF t % 2 = 1
      THEN [type |-> "INFO", sev |-> "MID",
            message |-> <<84, 101, 115, 116, 32, 108, 111, 103, 32, 109, 101,
                          115, 115, 97, 103, 101, 32, 110, 117, 109, 98, 101,
                          114, 32, 49>>,
            activity_uuid |-> 12345, parent_uuid |-> 0]
      ELSE [type |-> "PANIC", sev |-> "HIGH", message |-> <<97, 10, 98>>,
            activity_uuid |-> 0, parent_uuid |-> 7]

\* Calls with other arguments: the two above, and messages holding a quote,
\* a backslash and the control byte 0x01.
LogInputs ==
    { LogInput(1), LogInput(2),
      [type |-> "WARNING", sev |-> "LOW", message |-> <<97, 34, 98>>,
       activity_uuid |-> 1, parent_uuid |-> 2],
      [type |-> "ERROR", sev |-> "NONE", message |-> <<97, 92, 98>>,
       activity_uuid |-> 3, parent_uuid |-> 0],
      [type |-> "OK", sev |-> "NONE", message |-> <<1>>,
       activity_uuid |-> 0, parent_uuid |-> 0] }

(***************************************************************************)
(* Logger::Logger, the state after construction.                           *)
(***************************************************************************)
\* Diagnostics of the constructor.
CtorDiagnostics(path, open, uds, sock) ==
    (IF path # NoPath /\ ~open THEN <<"Failed to open log file">> ELSE <<>>)
    \o (IF uds # NoPath /\ sock < 0 THEN <<"Failed to create socket">> ELSE <<>>)

\* files and addrs being the paths the instance may be given.
InitLoggerAt(files, addrs) ==
    /\ logFilePath \in files
    /\ udsPath \in addrs
    /\ logFileOpen \in (IF logFilePath = NoPath THEN {FALSE} ELSE BOOLEAN)
    /\ udsSock \in (IF udsPath = NoPath THEN {-1} ELSE {-1, 3})
    /\ seq_id = 0
    /\ writeMutex = NoOwner
    /\ pc = [t \in Threads |-> "idle"]
    /\ args = [t \in Threads |-> NoArgs]
    /\ entry = [t \in Threads |-> NoEntry]
    /\ reg = [t \in Threads |-> 0]
    /\ started = 0
    /\ clock = 0
    /\ file = <<>>
    /\ cerr = CtorDiagnostics(logFilePath, logFileOpen, udsPath, udsSock)
    /\ sendLog = <<>>
    /\ entries = <<>>
    /\ destroyed = FALSE
    /\ webServer = "off"
    \* std::ios::app creates the file when it is not there
    /\ linked = (logFilePath # NoPath /\ logFileOpen)
    /\ rival = "off"
    /\ rivalBound = FALSE

InitLogger == InitLoggerAt({NoPath, "/tmp/a.0"}, {NoPath, "/tmp/b.0"})

(***************************************************************************)
(* Logger::log and the sinks.                                              *)
(***************************************************************************)
\* Faulty variant of WriteMutexFree: log() does not wait for the lock.
WriteMutexIgnored(m) == TRUE

\* std::lock_guard<std::mutex> lock(writeMutex): blocks until the mutex is free.
WriteMutexFree(m) == m = NoOwner

\* Logger::getTimestamp: the steady clock in microseconds.
getTimestamp(now) == now

\* sendto on the blocking datagram socket: the call waits while the
\* receiver's queue is full.
SendtoBlocks(sock, isBound, q) == sock >= 0 /\ isBound /\ Len(q) >= QueueCap

\* Return value of sendto: -1 on a bad descriptor (EBADF) and when no
\* receiver is bound at the address (ENOENT, ECONNREFUSED), the size otherwise.
SendtoRet(sock, isBound, payload) ==
    IF sock < 0 \/ ~isBound THEN -1 ELSE Len(payload)

\* Faulty variant of Unlock: the mutex is left locked.
UnlockForgotten(m) == m

\* The end of a std::lock_guard's scope: the mutex is released.
Unlock(m) == NoOwner

\* Faulty variant of Enqueue: a datagram whose sendto failed is kept and
\* handed to the receiver later.
EnqueueBuffered(q, ret, payload) == Append(q, payload)

\* What sendto leaves in the receiver's queue: the datagram when the call
\* succeeded, nothing when it failed.
Enqueue(q, ret, payload) == IF ret >= 0 THEN Append(q, payload) ELSE q

\* Faulty variant of OnSendResult: a failed sendto is not reported.
OnSendResultSilent(ret) == "ok"

\* Faulty variant of OnSendResult: a failed sendto is thrown to the caller.
OnSendResultThrows(ret) == IF ret < 0 THEN "throw" ELSE "ok"

\* writeToWS after sendto: a negative result is reported on std::cerr and
\* the function returns; nothing is thrown.
OnSendResult(ret) == IF ret < 0 THEN "report" ELSE "ok"

\* log() is entered by thread t with the arguments in.
LogCallWith(t, in) ==
    /\ pc[t] = "idle"
    /\ ~destroyed
    /\ started < MaxCalls
    /\ started' = started + 1
    /\ args' = [args EXCEPT ![t] = in]
    /\ pc' = [pc EXCEPT ![t] = "lock"]
    /\ UNCHANGED <<logFilePath, udsPath, logFileOpen, udsSock, seq_id,
                   writeMutex, entry, reg, clock, file, cerr, sendLog, entries>>
    /\ UNCHANGED <<channelVars, brokerVars>>
    /\ UNCHANGED lifeVars
    /\ UNCHANGED viewerVars

LogCall(t) == LogCallWith(t, LogInput(t))

\* line 122: the lock is taken.
LogLock(t) ==
    /\ pc[t] = "lock"
    /\ WriteMutexFree(writeMutex)
    /\ writeMutex' = <<"thread", t>>
    /\ pc' = [pc EXCEPT ![t] = "stamp"]
    /\ UNCHANGED <<logFilePath, udsPath, logFileOpen, udsSock, seq_id, args,
                   entry, reg, started, clock, file, cerr, sendLog, entries>>
    /\ UNCHANGED <<channelVars, brokerVars>>
    /\ UNCHANGED lifeVars
    /\ UNCHANGED viewerVars

\* lines 124-128: type, severity, timestamp and activity id of the entry.
\* The steady clock never goes back: the reading is at least the last one.
LogStamp(t) ==
    /\ pc[t] = "stamp"
    /\ \E now \in clock..MaxClock :
         /\ clock' = now
         /\ entry' = [entry EXCEPT ![t] =
                         [NoEntry EXCEPT !.type = args[t].type,
                                         !.sev = args[t].sev,
                                         !.timestamp = getTimestamp(now),
                                         !.activity_uuid = args[t].activity_uuid]]
    /\ pc' = [pc EXCEPT ![t] = "load"]
    /\ UNCHANGED <<logFilePath, udsPath, logFileOpen, udsSock, seq_id,
                   writeMutex, args, reg, started, file, cerr, sendLog,
                   entries>>
    /\ UNCHANGED <<channelVars, brokerVars>>
    /\ UNCHANGED lifeVars
    /\ UNCHANGED viewerVars

\* line 129, ++seq_id: the counter is read ...
LogLoadSeq(t) ==
    /\ pc[t] = "load"
    /\ reg' = [reg EXCEPT ![t] = seq_id]
    /\ pc' = [pc EXCEPT ![t] = "store"]
    /\ UNCHANGED <<logFilePath, udsPath, logFileOpen, udsSock, seq_id,
                   writeMutex, args, entry, started, clock, file, cerr,
                   sendLog, entries>>
    /\ UNCHANGED <<channelVars, brokerVars>>
    /\ UNCHANGED lifeVars
    /\ UNCHANGED viewerVars

\* ... and written back incremented; lines 129-133 complete the entry.
LogStoreSeq(t) ==
    /\ pc[t] = "store"
    /\ seq_id' = reg[t] + 1
    /\ entry' = [entry EXCEPT ![t] =
                    [@ EXCEPT !.seq_id = reg[t] + 1,
                              !.parent_uuid = args[t].parent_uuid,
                              !.offset = 0,
                              !.length = Len(args[t].message)]]
    /\ entries' = Append(entries, entry'[t])
    /\ pc' = [pc EXCEPT ![t] = "fs"]
    /\ UNCHANGED <<logFilePath, udsPath, logFileOpen, udsSock, writeMutex,
                   args, reg, started, clock, file, cerr, sendLog>>
    /\ UNCHANGED <<channelVars, brokerVars>>
    /\ UNCHANGED lifeVars
    /\ UNCHANGED viewerVars

\* line 135 and writeToFS.
writeToFS(t) ==
    /\ pc[t] = "fs"
    /\ IF logFilePath = NoPath
         THEN UNCHANGED <<file, cerr>>
         ELSE IF ~logFileOpen
                THEN /\ cerr' = Append(cerr, "Log file not open!")
                     /\ UNCHANGED file
                ELSE /\ file' = Append(file, FormatLine(entry[t], args[t].message))
                     /\ UNCHANGED cerr
    /\ pc' = [pc EXCEPT ![t] = "ws"]
    /\ UNCHANGED <<logFilePath, udsPath, logFileOpen, udsSock, seq_id,
                   writeMutex, args, entry, reg, started, clock, sendLog,
                   entries>>
    /\ UNCHANGED <<channelVars, brokerVars>>
    /\ UNCHANGED lifeVars
    /\ UNCHANGED viewerVars

\* line 136 and writeToWS, encoded being the payload the implementation
\* builds.  An exception leaving log() unwinds the lock_guard; the thread is
\* then at "threw".
WriteToWSWith(t, encoded) ==
    /\ pc[t] = "ws"
    /\ IF udsPath = NoPath
         THEN /\ pc' = [pc EXCEPT ![t] = "ret"]
              /\ UNCHANGED <<queue, sendLog, cerr, writeMutex>>
         ELSE LET payload == encoded
                  ret == SendtoRet(udsSock, bound, payload)
                  how == OnSendResult(ret)
              IN  /\ ~SendtoBlocks(udsSock, bound, queue)
                  /\ queue' = Enqueue(queue, ret, payload)
                  /\ sendLog' = Append(sendLog, [payload |-> payload, ret |-> ret])
                  /\ cerr' = IF how = "report"
                               THEN Append(cerr, "Failed to send payload")
                               ELSE cerr
                  /\ pc' = [pc EXCEPT ![t] = IF how = "throw" THEN "threw" ELSE "ret"]
                  /\ writeMutex' = IF how = "throw" THEN NoOwner ELSE writeMutex
    /\ UNCHANGED <<logFilePath, udsPath, logFileOpen, udsSock, seq_id, args,
                   entry, reg, started, clock, file, entries>>
    /\ UNCHANGED <<bound, brokerVars>>
    /\ UNCHANGED lifeVars
    /\ UNCHANGED viewerVars

\* writeToWS of src/lib/logger.cpp.
writeToWS(t) == WriteToWSWith(t, JsonPayload(entry[t], args[t].message))

\* writeToWS of the second publisher implementation.
writeToWSEscaped(t) ==
    WriteToWSWith(t, JsonPayloadEscaped(entry[t], args[t].message))

\* line 137: the lock_guard releases the mutex and log() returns.
LogReturn(t) ==
    /\ pc[t] = "ret"
    /\ writeMutex' = Unlock(writeMutex)
    /\ pc' = [pc EXCEPT ![t] = "idle"]
    /\ UNCHANGED <<logFilePath, udsPath, logFileOpen, udsSock, seq_id, args,
                   entry, reg, started, clock, file, cerr, sendLog, entries>>
    /\ UNCHANGED <<channelVars, brokerVars>>
    /\ UNCHANGED lifeVars
    /\ UNCHANGED viewerVars

(***************************************************************************)
(* Logger::start_server: the WebSocket handlers and the relay worker.      *)
(***************************************************************************)
Bridge == <<"udsBridgeThread">>
\* wsConnections.end()
End == 0

Min(a, b) == IF a < b THEN a ELSE b

\* The state before start_server, C being the connections that will be made.
InitBrokerOf(C) ==
    /\ bound = FALSE
    /\ queue = <<>>
    /\ bpc = "off"
    /\ dgram = <<>>
    /\ buffer = <<>>
    /\ wsConnections = {}
    /\ wsMutex = NoOwner
    /\ it = End
    /\ conn = [c \in C |-> "connecting"]
    /\ relayed = <<>>
    /\ inbox = [c \in C |-> <<>>]
    /\ failed = {}
    /\ regAt = [c \in C |-> 0]
    /\ polls = 0
    /\ published = 0
    /\ received = <<>>
    /\ logStore = [c \in C |-> <<>>]
    /\ viewed = [c \in C |-> 0]

InitBroker == InitBrokerOf(Conns)

Init == InitLogger /\ InitBroker

\* A Logger constructed with the relay address only, used as the server.
InitServer ==
    /\ Init
    /\ logFilePath = NoPath
    /\ udsPath # NoPath
    /\ udsSock >= 0

\* Faulty variant of WsMutexFree: nobody waits for the subscriber-set lock.
WsMutexIgnored(m) == TRUE

\* std::lock_guard<std::mutex> lock(wsMutex): blocks until the mutex is free.
WsMutexFree(m) == m = NoOwner

\* wsConnections.begin(): std::set iterates in ascending order of the pointers.
Begin(set) == IF set = {} THEN End ELSE CHOOSE c \in set : \A d \in set : c <= d

\* Faulty variant of Successor: the iterator is advanced twice.
SuccessorSkips(set, cur) ==
    LET next == Begin({c \in set : c > cur})
    IN  IF next = End THEN End ELSE Begin({c \in set : c > next})

\* ++it of the range-for: the next element of the set after cur.
Successor(set, cur) == Begin({c \in set : c > cur})

\* Faulty variant of AfterSend: an exception of send_text ends the loop.
AfterSendAborts(set, cur, threw) == IF threw THEN End ELSE Successor(set, cur)

\* The loop after one send_text: the catch block only reports, the loop goes on.
AfterSend(set, cur, threw) == Successor(set, cur)

\* recv(sockfd, buffer, BUFFER_SIZE - 1, 0): the bytes stored; the rest of a
\* longer datagram is discarded.
Recv(d) == SubSeq(d, 1, Min(Len(d), BUFFER_SIZE - 1))

\* strlen(buffer) with buffer[n] = '\0': the number of bytes before the first
\* zero byte.
StrLen(buf) ==
    LET zeros == {i \in 1..Len(buf) : buf[i] = 0}
    IN  IF zeros = {} THEN Len(buf)
        ELSE (CHOOSE i \in zeros : \A j \in zeros : i <= j) - 1

\* std::string(buffer): the C string held by the buffer.
CString(buf) == SubSeq(buf, 1, StrLen(buf))

\* The messages of the entries other publishers send: "hi", a message with a
\* zero byte, and one of BUFFER_SIZE bytes.
RelayMessages ==
    { <<104, 105>>, <<97, 0, 98>>, [i \in 1..BUFFER_SIZE |-> 120] }

\* The datagrams sent to the address: payloads of writeToWS, and an empty one.
PayloadOf(m) ==
    JsonPayload([NoEntry EXCEPT !.type = "INFO", !.sev = "MID", !.seq_id = 1], m)

Payloads == { PayloadOf(m) : m \in RelayMessages } \cup { <<>> }

\* The payload of the message "hi", and the empty datagram.
ShortPayloads == { PayloadOf(<<104, 105>>), <<>> }

\* line 141-144: start_server spawns the web-server thread.
start_server ==
    /\ bpc = "off"
    /\ udsPath # NoPath
    /\ bpc' = "socket"
    /\ webServer' = "running"
    /\ UNCHANGED <<dgram, buffer, wsConnections, wsMutex, it, conn, relayed,
                   inbox, failed, regAt, polls, published, received>>
    /\ UNCHANGED <<loggerVars, channelVars>>
    /\ UNCHANGED <<destroyed, linked, rival, rivalBound>>
    /\ UNCHANGED viewerVars

\* line 213-217: socket() of the relay worker.
BrSocket ==
    /\ bpc = "socket"
    /\ \E ok \in BOOLEAN :
         /\ bpc' = IF ok THEN "unlink" ELSE "exit"
         /\ cerr' = IF ok THEN cerr
                    ELSE Append(cerr, "UDS Bridge: Failed to create socket")
    /\ UNCHANGED <<logFilePath, udsPath, logFileOpen, udsSock, seq_id,
                   writeMutex, pc, args, entry, reg, started, clock, file,
                   sendLog, entries>>
    /\ UNCHANGED <<dgram, buffer, wsConnections, wsMutex, it, conn, relayed,
                   inbox, failed, regAt, polls, published, received>>
    /\ UNCHANGED channelVars
    /\ UNCHANGED lifeVars
    /\ UNCHANGED viewerVars

\* The lambdas capture this, wsConnections and wsMutex by reference (line
\* 212): a step that uses one of them after its owner is gone has undefined
\* behaviour, which is either to go on to next or to crash the worker.
StaleOutcomes(ownerAlive, next) ==
    IF ownerAlive THEN {next} ELSE {next, "crashed"}

\* unlink(path): path no longer names what it named.
Unlinked(path, target, named) == IF path = target THEN FALSE ELSE named

\* line 219: unlink(udsPath->c_str()).
BrUnlink ==
    /\ bpc = "unlink"
    /\ \E to \in StaleOutcomes(~destroyed, "bind") :
         /\ bpc' = to
         /\ IF to = "crashed"
              THEN UNCHANGED <<bound, queue, linked, rivalBound>>
              ELSE /\ bound' = FALSE
                   /\ queue' = <<>>
                   /\ linked' = Unlinked(udsPath, logFilePath, linked)
                   /\ rivalBound' = FALSE
    /\ UNCHANGED <<dgram, buffer, wsConnections, wsMutex, it, conn, relayed,
                   inbox, failed, regAt, polls, published, received>>
    /\ UNCHANGED loggerVars
    /\ UNCHANGED <<destroyed, webServer, rival>>
    /\ UNCHANGED viewerVars

\* bind() fails when the path exists (EADDRINUSE) and may fail otherwise.
BindResults(pathInUse) == IF pathInUse THEN {FALSE} ELSE BOOLEAN

\* line 221-229: the address is built from udsPath, then bind().
BrBind ==
    /\ bpc = "bind"
    /\ \E ok \in BindResults(rivalBound) :
         \E to \in StaleOutcomes(~destroyed, IF ok THEN "recv" ELSE "exit") :
            /\ bpc' = to
            /\ bound' = (to = "recv")
            /\ cerr' = IF to = "exit"
                         THEN Append(cerr, "UDS Bridge: Failed to bind")
                         ELSE cerr
    /\ UNCHANGED queue
    /\ UNCHANGED <<logFilePath, udsPath, logFileOpen, udsSock, seq_id,
                   writeMutex, pc, args, entry, reg, started, clock, file,
                   sendLog, entries>>
    /\ UNCHANGED <<dgram, buffer, wsConnections, wsMutex, it, conn, relayed,
                   inbox, failed, regAt, polls, published, received>>
    /\ UNCHANGED lifeVars
    /\ UNCHANGED viewerVars

\* line 234-236, 249: recv blocks until a datagram is queued; n > 0 goes on
\* to the broadcast, anything else to the sleep.
BrRecv ==
    /\ bpc = "recv"
    /\ queue # <<>>
    /\ dgram' = Head(queue)
    /\ buffer' = Recv(Head(queue))
    /\ queue' = Tail(queue)
    /\ received' = Append(received, Head(queue))
    /\ bpc' = IF Len(buffer') > 0 THEN "lock" ELSE "sleep"
    /\ UNCHANGED <<wsConnections, wsMutex, it, conn, relayed, inbox, failed,
                   regAt, polls, published>>
    /\ UNCHANGED <<loggerVars, bound>>
    /\ UNCHANGED lifeVars
    /\ UNCHANGED viewerVars

\* line 251: sleep_for(10ms), then recv again.
BrSleep ==
    /\ bpc = "sleep"
    /\ polls' = polls + 1
    /\ bpc' = "recv"
    /\ UNCHANGED <<dgram, buffer, wsConnections, wsMutex, it, conn, relayed,
                   inbox, failed, regAt, published, received>>
    /\ UNCHANGED <<loggerVars, channelVars>>
    /\ UNCHANGED lifeVars
    /\ UNCHANGED viewerVars

\* line 240-241: the broadcast takes wsMutex and starts at begin().
BrLock ==
    /\ bpc = "lock"
    /\ WsMutexFree(wsMutex)
    /\ \E to \in StaleOutcomes(webServer = "running", "iter") :
         /\ bpc' = to
         /\ IF to = "crashed"
              THEN UNCHANGED <<wsMutex, it, relayed>>
              ELSE /\ wsMutex' = Bridge
                   /\ it' = Begin(wsConnections)
                   /\ relayed' = Append(relayed,
                                        [dgram |-> dgram, live |-> wsConnections,
                                         rx |-> Len(received)])
    /\ UNCHANGED <<dgram, buffer, wsConnections, conn, inbox, failed, regAt,
                   polls, published, received>>
    /\ UNCHANGED <<loggerVars, channelVars>>
    /\ UNCHANGED lifeVars
    /\ UNCHANGED viewerVars

\* Faulty variant of send_text: the frame overtakes the frames sent before.
send_text_reordered(box, frame) == <<frame>> \o box

\* conn->send_text(msg) when it does not throw: the frame follows, on the
\* connection, the frames of the earlier calls.
send_text(box, frame) == Append(box, frame)

\* line 241-247: one iteration, conn->send_text(std::string(buffer)), which
\* delivers the frame or throws.
BrSend ==
    /\ bpc = "iter"
    /\ it # End
    /\ \E threw \in BOOLEAN :
         /\ inbox' = IF threw THEN inbox
                     ELSE [inbox EXCEPT ![it] =
                             send_text(@, [ev |-> Len(relayed),
                                           data |-> CString(buffer)])]
         /\ failed' = IF threw THEN failed \cup {<<it, Len(relayed)>>} ELSE failed
         /\ it' = AfterSend(wsConnections, it, threw)
    /\ UNCHANGED <<bpc, dgram, buffer, wsConnections, wsMutex, conn, relayed,
                   regAt, polls, published, received>>
    /\ UNCHANGED <<loggerVars, channelVars>>
    /\ UNCHANGED lifeVars
    /\ UNCHANGED viewerVars

\* line 247-248: the loop is over, the lock_guard releases wsMutex.
BrDone ==
    /\ bpc = "iter"
    /\ it = End
    /\ wsMutex' = Unlock(wsMutex)
    /\ bpc' = "recv"
    /\ UNCHANGED <<dgram, buffer, wsConnections, it, conn, relayed, inbox,
                   failed, regAt, polls, published, received>>
    /\ UNCHANGED <<loggerVars, channelVars>>
    /\ UNCHANGED lifeVars
    /\ UNCHANGED viewerVars

\* line 196-197: onopen takes wsMutex.
OnOpenLock(c) ==
    /\ bpc # "off"
    /\ webServer = "running"
    /\ conn[c] = "connecting"
    /\ WsMutexFree(wsMutex)
    /\ wsMutex' = <<"handler", c>>
    /\ conn' = [conn EXCEPT ![c] = "opening"]
    /\ UNCHANGED <<bpc, dgram, buffer, wsConnections, it, relayed, inbox,
                   failed, regAt, polls, published, received>>
    /\ UNCHANGED <<loggerVars, channelVars>>
    /\ UNCHANGED lifeVars
    /\ UNCHANGED viewerVars

\* line 198-200: insert, release, return.
OnOpenInsert(c) ==
    /\ conn[c] = "opening"
    /\ wsConnections' = wsConnections \cup {c}
    /\ wsMutex' = Unlock(wsMutex)
    /\ conn' = [conn EXCEPT ![c] = "open"]
    /\ regAt' = [regAt EXCEPT ![c] = Len(relayed)]
    /\ UNCHANGED <<bpc, dgram, buffer, it, relayed, inbox, failed, polls,
                   published, received>>
    /\ UNCHANGED <<loggerVars, channelVars>>
    /\ UNCHANGED lifeVars
    /\ UNCHANGED viewerVars

\* line 201-202: onclose takes wsMutex.
OnCloseLock(c) ==
    /\ webServer = "running"
    /\ conn[c] = "open"
    /\ WsMutexFree(wsMutex)
    /\ wsMutex' = <<"handler", c>>
    /\ conn' = [conn EXCEPT ![c] = "closing"]
    /\ UNCHANGED <<bpc, dgram, buffer, wsConnections, it, relayed, inbox,
                   failed, regAt, polls, published, received>>
    /\ UNCHANGED <<loggerVars, channelVars>>
    /\ UNCHANGED lifeVars
    /\ UNCHANGED viewerVars

\* line 203-205: erase, release, return.
OnCloseErase(c) ==
    /\ conn[c] = "closing"
    /\ wsConnections' = wsConnections \ {c}
    /\ wsMutex' = Unlock(wsMutex)
    /\ conn' = [conn EXCEPT ![c] = "closed"]
    /\ UNCHANGED <<bpc, dgram, buffer, it, relayed, inbox, failed, regAt,
                   polls, published, received>>
    /\ UNCHANGED <<loggerVars, channelVars>>
    /\ UNCHANGED lifeVars
    /\ UNCHANGED viewerVars

\* Another publisher's writeToWS: sendto of one payload to the bound address,
\* max being the number of datagrams the publishers send in all.
PublishUpTo(p, max) ==
    /\ published < max
    /\ bound
    /\ Len(queue) < QueueCap
    /\ queue' = Append(queue, p)
    /\ published' = published + 1
    /\ UNCHANGED <<bpc, dgram, buffer, wsConnections, wsMutex, it, conn,
                   relayed, inbox, failed, regAt, polls, received>>
    /\ UNCHANGED <<loggerVars, bound>>
    /\ UNCHANGED lifeVars
    /\ UNCHANGED viewerVars

Publish(p) == PublishUpTo(p, MaxDatagrams)

\* Logger::~Logger, line 65-71: the stream and the socket are closed; the
\* destructor does not take writeMutex.
Destroy ==
    /\ ~destroyed
    /\ destroyed' = TRUE
    /\ logFileOpen' = FALSE
    /\ udsSock' = -1
    /\ UNCHANGED <<logFilePath, udsPath, seq_id, writeMutex, pc, args, entry,
                   reg, started, clock, file, cerr, sendLog, entries>>
    /\ UNCHANGED <<channelVars, brokerVars>>
    /\ UNCHANGED <<webServer, linked, rival, rivalBound>>
    /\ UNCHANGED viewerVars

\* line 259: app.run() returns (the port cannot be bound, or the server is
\* stopped) and the lambda of the web-server thread ends: its locals
\* wsConnections and wsMutex are destroyed.  No handler runs any more.
WebServerReturns ==
    /\ webServer = "running"
    /\ \A c \in DOMAIN conn : conn[c] \notin {"opening", "closing"}
    /\ webServer' = "returned"
    /\ UNCHANGED <<loggerVars, channelVars, brokerVars>>
    /\ UNCHANGED <<destroyed, linked, rival, rivalBound>>
    /\ UNCHANGED viewerVars

\* start_server is called once more on the same relay address, by this
\* process or by another one: a second relay worker starts.
RivalStart ==
    /\ rival = "off"
    /\ udsPath # NoPath
    /\ rival' = "unlink"
    /\ UNCHANGED <<loggerVars, channelVars, brokerVars>>
    /\ UNCHANGED <<destroyed, webServer, linked, rivalBound>>
    /\ UNCHANGED viewerVars

\* line 219 in the second worker: unlink removes whatever the path names.
RivalUnlink ==
    /\ rival = "unlink"
    /\ rival' = "bind"
    /\ bound' = FALSE
    /\ linked' = Unlinked(udsPath, logFilePath, linked)
    /\ UNCHANGED queue
    /\ UNCHANGED <<loggerVars, brokerVars>>
    /\ UNCHANGED <<destroyed, webServer, rivalBound>>
    /\ UNCHANGED viewerVars

\* line 225-229 in the second worker.
RivalBind ==
    /\ rival = "bind"
    /\ \E ok \in BindResults(bound) :
         /\ rival' = IF ok THEN "recv" ELSE "exit"
         /\ rivalBound' = ok
    /\ UNCHANGED <<loggerVars, channelVars, brokerVars>>
    /\ UNCHANGED <<destroyed, webServer, linked>>
    /\ UNCHANGED viewerVars

(***************************************************************************)
(* Specifications.                                                         *)
(***************************************************************************)
\* Threads calling log() on one Logger while the relay worker starts and
\* drains the channel; no WebSocket client connects.
NextLogger ==
    \/ \E t \in Threads : LogCall(t)
    \/ \E t \in Threads : LogLock(t)
    \/ \E t \in Threads : LogStamp(t)
    \/ \E t \in Threads : LogLoadSeq(t)
    \/ \E t \in Threads : LogStoreSeq(t)
    \/ \E t \in Threads : writeToFS(t)
    \/ \E t \in Threads : writeToWS(t)
    \/ \E t \in Threads : LogReturn(t)
    \/ start_server
    \/ BrSocket
    \/ BrUnlink
    \/ BrBind
    \/ BrRecv
    \/ BrLock
    \/ BrDone

SpecLogger == Init /\ [][NextLogger]_vars

\* The same for a Logger whose file sink is enabled and open.
InitFileSink == Init /\ logFilePath # NoPath /\ logFileOpen

SpecSinks == InitFileSink /\ [][NextLogger]_vars

\* The relay worker, the WebSocket handlers and publishers of datagrams.
NextBroker ==
    \/ start_server
    \/ BrSocket
    \/ BrUnlink
    \/ BrBind
    \/ BrRecv
    \/ BrSleep
    \/ BrLock
    \/ BrSend
    \/ BrDone
    \/ \E c \in Conns : OnOpenLock(c)
    \/ \E c \in Conns : OnOpenInsert(c)
    \/ \E c \in Conns : OnCloseLock(c)
    \/ \E c \in Conns : OnCloseErase(c)
    \/ \E p \in ShortPayloads : Publish(p)

SpecBroker == InitServer /\ [][NextBroker]_vars

\* The same, the publishers sending every payload of Payloads.
NextRelay ==
    \/ start_server
    \/ BrSocket
    \/ BrUnlink
    \/ BrBind
    \/ BrRecv
    \/ BrSleep
    \/ BrLock
    \/ BrSend
    \/ BrDone
    \/ \E c \in Conns : OnOpenLock(c)
    \/ \E c \in Conns : OnOpenInsert(c)
    \/ \E c \in Conns : OnCloseLock(c)
    \/ \E c \in Conns : OnCloseErase(c)
    \/ \E p \in Payloads : Publish(p)

SpecRelay == InitServer /\ [][NextRelay]_vars

\* Every configuration of the two paths, the one of example.cpp included,
\* which gives the log file and the relay address the same path.
InitPaths ==
    /\ InitLoggerAt({NoPath, "/tmp/a.0"}, {NoPath, "/tmp/b.0", "/tmp/a.0"})
    /\ InitBroker

SpecPaths == InitPaths /\ [][NextLogger]_vars

\* A fresh Logger with both sinks working, called with the arguments of
\* LogInputs and built from either publisher implementation.
InitEncode ==
    /\ Init
    /\ logFilePath # NoPath /\ logFileOpen
    /\ udsPath # NoPath /\ udsSock >= 0

NextEncode ==
    \/ \E t \in Threads : \E in \in LogInputs : LogCallWith(t, in)
    \/ \E t \in Threads : LogLock(t)
    \/ \E t \in Threads : LogStamp(t)
    \/ \E t \in Threads : LogLoadSeq(t)
    \/ \E t \in Threads : LogStoreSeq(t)
    \/ \E t \in Threads : writeToFS(t)
    \/ \E t \in Threads : writeToWS(t)
    \/ \E t \in Threads : writeToWSEscaped(t)
    \/ \E t \in Threads : LogReturn(t)
    \/ start_server
    \/ BrSocket
    \/ BrUnlink
    \/ BrBind
    \/ BrRecv
    \/ BrLock
    \/ BrDone

SpecEncode == InitEncode /\ [][NextEncode]_vars

\* A Logger with both sinks working that is logged to, started as a server
\* and destroyed, while the web-server thread may return at any time.
NextLifetime ==
    \/ \E t \in Threads : LogCall(t)
    \/ \E t \in Threads : LogLock(t)
    \/ \E t \in Threads : LogStamp(t)
    \/ \E t \in Threads : LogLoadSeq(t)
    \/ \E t \in Threads : LogStoreSeq(t)
    \/ \E t \in Threads : writeToFS(t)
    \/ \E t \in Threads : writeToWS(t)
    \/ \E t \in Threads : LogReturn(t)
    \/ start_server
    \/ BrSocket
    \/ BrUnlink
    \/ BrBind
    \/ BrRecv
    \/ BrLock
    \/ BrDone
    \/ Destroy
    \/ WebServerReturns

SpecLifetime == InitEncode /\ [][NextLifetime]_vars

\* Two Brokers started on the same relay address: the relay worker of this
\* process and the worker of a second start_server, with publishers sending.
NextRival ==
    \/ start_server
    \/ BrSocket
    \/ BrUnlink
    \/ BrBind
    \/ BrRecv
    \/ BrSleep
    \/ BrLock
    \/ BrDone
    \/ \E p \in ShortPayloads : Publish(p)
    \/ RivalStart
    \/ RivalUnlink
    \/ RivalBind

SpecRival == InitServer /\ [][NextRival]_vars

\* The whole pipeline: threads calling log() on a Logger with both sinks
\* working, the relay worker, and one viewer connecting and disconnecting.
OneViewer == {1}

InitFull ==
    /\ InitLoggerAt({"/tmp/a.0"}, {"/tmp/b.0"})
    /\ logFileOpen /\ udsSock >= 0
    /\ InitBrokerOf(OneViewer)

NextFull ==
    \/ \E t \in Threads : LogCall(t)
    \/ \E t \in Threads : LogLock(t)
    \/ \E t \in Threads : LogStamp(t)
    \/ \E t \in Threads : LogLoadSeq(t)
    \/ \E t \in Threads : LogStoreSeq(t)
    \/ \E t \in Threads : writeToFS(t)
    \/ \E t \in Threads : writeToWS(t)
    \/ \E t \in Threads : LogReturn(t)
    \/ start_server
    \/ BrSocket
    \/ BrUnlink
    \/ BrBind
    \/ BrRecv
    \/ BrLock
    \/ BrSend
    \/ BrDone
    \/ \E c \in OneViewer : OnOpenLock(c)
    \/ \E c \in OneViewer : OnOpenInsert(c)
    \/ \E c \in OneViewer : OnCloseLock(c)
    \/ \E c \in OneViewer : OnCloseErase(c)

SpecFull == InitFull /\ [][NextFull]_vars

\* Four clients connect to the server, in any order and at any time, while
\* publishers send a first, a second and a third datagram; nobody disconnects.
FourConns == {1, 2, 3, 4}
ThreeDatagrams == {1, 2, 3}

InitFour ==
    /\ InitLogger
    /\ InitBrokerOf(FourConns)
    /\ logFilePath = NoPath
    /\ udsPath # NoPath
    /\ udsSock >= 0

NextFour ==
    \/ start_server
    \/ BrSocket
    \/ BrUnlink
    \/ BrBind
    \/ BrRecv
    \/ BrLock
    \/ BrSend
    \/ BrDone
    \/ \E c \in FourConns : OnOpenLock(c)
    \/ \E c \in FourConns : OnOpenInsert(c)
    \/ PublishUpTo(PayloadOf(<<104, 105>>), Cardinality(ThreeDatagrams))

SpecFour == InitFour /\ [][NextFour]_vars

(***************************************************************************)
(* Properties of Logger::log (checked under SpecLogger).                   *)
(***************************************************************************)
\* The Seq value of each chunk of the file, in file order.
FileSeqs == [k \in 1..Len(file) |-> FieldAfter(SeqLabel, file[k])]
\* The seq_id of each datagram handed to sendto, in call order.
SentSeqs == [k \in 1..Len(sendLog) |-> FieldAfter(SeqIdKey, sendLog[k].payload)]

Holds(t) == writeMutex = <<"thread", t>>

\* C1: whatever the interleaving of the threads calling log(), the seq values
\* assigned so far are exactly 1..N, N the number of assignments: the first
\* is 1, none is assigned twice, none is skipped.
C1_SeqExactlyOneToN ==
    LET given == {entries[i].seq_id : i \in 1..Len(entries)}
    IN  /\ given = 1..Len(entries)
        /\ \A i, j \in 1..Len(entries) :
             entries[i].seq_id = entries[j].seq_id => i = j
        /\ (Len(entries) > 0 => entries[1].seq_id = 1)

\* Two threads have called log(): one got seq 1, the other has just been
\* assigned seq 2.
C1_Witness ==
    \E t, u \in Threads :
        /\ t # u
        /\ entry[t].seq_id = 1 /\ entry[u].seq_id = 2
        /\ pc[u] = "fs"
        /\ Len(entries) = 2

\* C2: the lines of the file, the datagrams handed to sendto and the seq
\* values are in the same order: the k-th line of the file carries Seq k, the
\* k-th datagram carries seq_id k (so Seq is strictly increasing down the
\* file and the k-th datagram carries the Seq of the k-th line), and with
\* both sinks enabled the line of a call is written before its datagram is
\* sent, nothing else coming between.
C2_FileOrderIsPublishOrder ==
    /\ \A k \in 1..Len(file) : FileSeqs[k] = k
    /\ \A k \in 1..Len(sendLog) : SentSeqs[k] = k
    /\ (logFilePath # NoPath /\ logFileOpen /\ udsPath # NoPath) =>
          /\ Len(sendLog) <= Len(file)
          /\ Len(file) <= Len(sendLog) + 1

\* Both sinks work, two threads have each written a line and sent a datagram
\* that reached the bound receiver.
C2_Witness ==
    /\ logFilePath # NoPath /\ logFileOpen /\ udsPath # NoPath /\ udsSock >= 0
    /\ Len(file) = 2 /\ Len(sendLog) = 2
    /\ sendLog[1].ret >= 0 /\ sendLog[2].ret >= 0
    /\ \E t, u \in Threads : t # u /\ entry[t].seq_id = 1 /\ entry[u].seq_id = 2

\* C3: timestamps are non-decreasing in seq order: of two entries the one
\* with the smaller seq has the smaller or equal timestamp.
C3_TimestampsFollowSeq ==
    \A i, j \in 1..Len(entries) :
        entries[i].seq_id < entries[j].seq_id =>
            entries[i].timestamp <= entries[j].timestamp

\* Two threads built entries at different clock readings.
C3_Witness ==
    /\ Len(entries) >= 2
    /\ entries[1].timestamp < entries[2].timestamp
    /\ \E t, u \in Threads : t # u /\ entry[t].seq_id = 1 /\ entry[u].seq_id = 2

\* C4: no sink failure leaves log() as an exception: in every configuration
\* of the two sinks a thread is never unwound out of log(), a thread outside
\* the critical section does not hold the ordering lock, and when no call is
\* in the critical section the lock is free for the next call.
C4_NoSinkFailurePropagates ==
    /\ \A t \in Threads : pc[t] # "threw"
    /\ \A t \in Threads : pc[t] \in {"idle", "lock"} => ~Holds(t)
    /\ (\A t \in Threads : pc[t] \in {"idle", "lock"}) => writeMutex = NoOwner

\* The file failed to open and the socket could not be created; two calls
\* have reported both failures and returned, and the lock is free again.
C4_Witness ==
    /\ logFilePath # NoPath /\ ~logFileOpen
    /\ udsPath # NoPath /\ udsSock < 0
    /\ Len(entries) = 2 /\ Len(sendLog) = 2
    /\ sendLog[2].ret < 0
    /\ \A t \in Threads : pc[t] = "idle"
    /\ writeMutex = NoOwner

\* C5: log() never waits on the Broker: a thread that has reached the send
\* of writeToWS can always complete it, whatever the Broker has drained.
C5_LogNeverWaitsOnBroker ==
    \A t \in Threads :
        (pc[t] = "ws" /\ udsPath # NoPath) => ~SendtoBlocks(udsSock, bound, queue)

(***************************************************************************)
(* Properties of the relay (checked under SpecBroker and SpecRelay).       *)
(***************************************************************************)
\* Relay event k is the k-th broadcast; it has completed once the worker has
\* left its loop.
Completed(k) == k < Len(relayed) \/ bpc # "iter"

\* send_text delivered the frame of relay event k to connection c.
Got(c, k) == \E i \in 1..Len(inbox[c]) : inbox[c][i].ev = k

\* send_text was called on c during relay event k.
Attempted(c, k) == Got(c, k) \/ <<c, k>> \in failed

\* C6: every connection that was registered when relay event k began has
\* received the frame of event k when the event completes (unless its own
\* send_text threw), and a connection receives no frame of an event that
\* began before its registration completed.
C6_RegisteredBeforeReceivesAfterNever ==
    /\ \A k \in 1..Len(relayed) :
         Completed(k) =>
            \A c \in relayed[k].live : <<c, k>> \notin failed => Got(c, k)
    /\ \A c \in Conns : \A i \in 1..Len(inbox[c]) :
         /\ conn[c] \notin {"connecting", "opening"}
         /\ inbox[c][i].ev > regAt[c]

\* Connection 1 received events 1 and 2; connection 2 registered after event
\* 1 and received event 2 only.
C6_Witness ==
    /\ Len(relayed) = 2 /\ bpc = "recv"
    /\ regAt[1] = 0 /\ Got(1, 1) /\ Got(1, 2)
    /\ regAt[2] = 1 /\ ~Got(2, 1) /\ Got(2, 2)

\* C7: the frame a connection receives is byte for byte the datagram that
\* was sent, whatever its length and content.
C7_PayloadUnchanged ==
    \A c \in Conns : \A i \in 1..Len(inbox[c]) :
        inbox[c][i].data = relayed[inbox[c][i].ev].dgram

\* C8: when send_text to one connection throws during a broadcast, every
\* other connection of the set is still sent the payload in that broadcast,
\* wherever the failing one stands in the iteration.
C8_FailureDoesNotStopBroadcast ==
    \A k \in 1..Len(relayed) :
        Completed(k) =>
            \A f, c \in relayed[k].live :
                (<<f, k>> \in failed /\ c # f) =>
                    /\ Attempted(c, k)
                    /\ (<<c, k>> \notin failed => Got(c, k))

\* The first connection of the iteration failed and the second one received
\* the frame of the same broadcast.
C8_Witness ==
    /\ Len(relayed) = 1 /\ bpc = "recv"
    /\ relayed[1].live = {1, 2}
    /\ <<1, 1>> \in failed
    /\ Got(2, 1)

\* C9: a connection whose send_text threw is out of the live set when that
\* broadcast completes, and no later broadcast sends to it.
C9_FailedSubscriberRemoved ==
    /\ bpc # "iter" => \A p \in failed : p[1] \notin wsConnections
    /\ \A p \in failed : \A j \in (p[2] + 1)..Len(relayed) : ~Attempted(p[1], j)

\* Handlers inside onopen/onclose and the broadcast loop exclude each other.
MutualExclusion ==
    Cardinality({c \in Conns : conn[c] \in {"opening", "closing"}})
        + (IF bpc = "iter" THEN 1 ELSE 0) <= 1

\* Nothing is sent to a connection whose onclose has returned.
NoSendAfterUnregister ==
    \A c \in Conns :
        conn[c] = "closed" =>
            /\ inbox'[c] = inbox[c]
            /\ {p \in failed' : p[1] = c} = {p \in failed : p[1] = c}

\* C10: onopen and onclose exclude the broadcast iteration under wsMutex, and
\* once onclose has returned for a connection no broadcast sends to it.
C10_RegistrationSafeDuringBroadcast ==
    [](MutualExclusion) /\ [][NoSendAfterUnregister]_vars

\* A handler waits for wsMutex while the broadcast iterates, and a connection
\* that was sent the first event has been closed before the second.
C10_Witness ==
    /\ bpc = "iter" /\ Len(relayed) = 2
    /\ conn[1] = "closed" /\ Got(1, 1)
    /\ conn[2] = "open" /\ relayed[2].live = {2}

\* The worker has finished with the r-th datagram recv returned.
Handled(r) == r < Len(received) \/ bpc = "recv"

\* The number of send_text calls made on c during relay event k.
Sends(c, k) ==
    Cardinality({i \in 1..Len(inbox[c]) : inbox[c][i].ev = k})
        + (IF <<c, k>> \in failed THEN 1 ELSE 0)

\* C11: every datagram recv returned, a zero-length one included, is
\* broadcast exactly once, and a broadcast calls send_text exactly once on
\* every connection of the live set and on no other.
C11_EveryDatagramRelayedOnce ==
    /\ \A r \in 1..Len(received) :
         Handled(r) =>
            Cardinality({k \in 1..Len(relayed) : relayed[k].rx = r}) = 1
    /\ \A k \in 1..Len(relayed) : \A c \in Conns :
         /\ Sends(c, k) <= 1
         /\ Sends(c, k) = 1 => c \in relayed[k].live
         /\ (Completed(k) /\ c \in relayed[k].live) => Sends(c, k) = 1

\* C12: the broadcasts follow the order of receipt: the k-th broadcast sends
\* the datagram of its position in received, later broadcasts send later
\* datagrams, and on every connection the frames arrive in that order.
C12_FanOutKeepsReceiveOrder ==
    /\ \A k \in 1..Len(relayed) :
         /\ relayed[k].rx \in 1..Len(received)
         /\ relayed[k].dgram = received[relayed[k].rx]
    /\ \A j, k \in 1..Len(relayed) : j < k => relayed[j].rx < relayed[k].rx
    /\ \A c \in Conns : \A i, j \in 1..Len(inbox[c]) :
         i < j => relayed[inbox[c][i].ev].rx < relayed[inbox[c][j].ev].rx

\* A connection has been sent the first and the second datagram received,
\* in this order.
C12_Witness ==
    /\ Len(received) >= 2
    /\ \E c \in Conns :
         /\ Len(inbox[c]) = 2
         /\ relayed[inbox[c][1].ev].rx = 1
         /\ relayed[inbox[c][2].ev].rx = 2

(***************************************************************************)
(* The scenario of four subscribers (checked under SpecFour).              *)
(***************************************************************************)
\* Connections 1, 2, 3 were registered when the first datagram was relayed,
\* connection 4 registered after it and before the second, and the second
\* broadcast has completed.
FourthJoinedAfterFirst ==
    /\ Len(relayed) >= 2 /\ Completed(2)
    /\ relayed[1].live = {1, 2, 3}
    /\ relayed[2].live = FourConns

\* C13 as stated: the three first subscribers receive the first datagram,
\* only the fourth receives the second, and all four receive a third.
C13_OnlyFourthReceivesSecond ==
    (FourthJoinedAfterFirst /\ failed = {}) =>
        /\ \A c \in {1, 2, 3} : Got(c, 1)
        /\ Got(4, 2)
        /\ \A c \in {1, 2, 3} : ~Got(c, 2)
        /\ (Len(relayed) >= 3 /\ Completed(3)) => \A c \in FourConns : Got(c, 3)

\* C13 amended: the three first subscribers receive the first datagram and
\* the fourth does not; all four receive the second, so that the second is
\* the first one the fourth receives; all four receive a third.  A
\* subscriber misses a datagram only if its own send_text threw.
C13_FourthReceivesFromSecondOn ==
    FourthJoinedAfterFirst =>
        /\ \A c \in {1, 2, 3} : <<c, 1>> \notin failed => Got(c, 1)
        /\ ~Attempted(4, 1)
        /\ \A c \in FourConns : <<c, 2>> \notin failed => Got(c, 2)
        /\ (Len(relayed) >= 3 /\ Completed(3)) =>
              /\ relayed[3].live = FourConns
              /\ \A c \in FourConns : <<c, 3>> \notin failed => Got(c, 3)

\* The scenario has run to its end without a failed send: three subscribers
\* have the three datagrams, the fourth has the second and the third.
C13_Witness ==
    /\ FourthJoinedAfterFirst /\ failed = {}
    /\ Len(relayed) = 3 /\ bpc = "recv"
    /\ \A c \in {1, 2, 3} : Len(inbox[c]) = 3
    /\ Len(inbox[4]) = 2 /\ inbox[4][1].ev = 2 /\ inbox[4][2].ev = 3

(***************************************************************************)
(* Failures of the sinks (checked under SpecLogger and SpecSinks).         *)
(***************************************************************************)
\* The number of times the diagnostic d was written to std::cerr.
Reports(d) == Cardinality({i \in 1..Len(cerr) : cerr[i] = d})

\* The threads whose call is at one of the positions of P.
At(P) == {t \in Threads : pc[t] \in P}

\* C14: when the log file could not be opened, the failure is reported once,
\* by the constructor; after that log() writes nothing to the file and
\* reports nothing more about it, while seq is still assigned and the
\* datagram of every call is still handed to sendto.
C14_FileSinkDisabledSilently ==
    (logFilePath # NoPath /\ ~logFileOpen) =>
        /\ file = <<>>
        /\ Reports("Failed to open log file") = 1
        /\ Reports("Log file not open!") = 0
        /\ \A k \in 1..Len(entries) : entries[k].seq_id = k
        /\ udsPath # NoPath =>
              Len(sendLog) = Len(entries) - Cardinality(At({"fs", "ws"}))

\* C15: when the datagram socket could not be created, the failure is
\* reported once, by the constructor; no log() call attempts a send or
\* reports a failed one, and every call still writes its line to the file.
C15_PublishSinkDisabled ==
    (udsPath # NoPath /\ udsSock < 0) =>
        /\ Reports("Failed to create socket") = 1
        /\ sendLog = <<>>
        /\ Reports("Failed to send payload") = 0
        /\ (logFilePath # NoPath /\ logFileOpen) =>
              Len(file) = Len(entries) - Cardinality(At({"fs"}))

\* C16: every sendto that fails is reported exactly once and the datagram
\* is dropped; each call makes exactly one sendto, after its line has been
\* written to the file, so a failed send is not repeated and the next call
\* makes its own; the seq of the entry stays assigned.
C16_FailedPublishDropsOnlyThatDatagram ==
    LET failedSends == {k \in 1..Len(sendLog) : sendLog[k].ret < 0}
    IN  /\ Reports("Failed to send payload") = Cardinality(failedSends)
        /\ Len(queue) + Len(received) = Len(sendLog) - Cardinality(failedSends)
        /\ udsPath # NoPath =>
              Len(sendLog) = Len(entries) - Cardinality(At({"fs", "ws"}))
        /\ Len(file) = Len(entries) - Cardinality(At({"fs"}))
        /\ \A k \in 1..Len(entries) : entries[k].seq_id = k

\* The first call found no receiver bound: its send failed and was reported
\* once, its line is in the file; the second call, made after the worker
\* had bound the address, sent its own datagram.
C16_Witness ==
    /\ udsSock >= 0 /\ bound
    /\ Len(sendLog) = 2 /\ sendLog[1].ret < 0 /\ sendLog[2].ret >= 0
    /\ Reports("Failed to send payload") = 1
    /\ Len(file) = 2 /\ Len(entries) = 2
    /\ Len(queue) + Len(received) = 1

(***************************************************************************)
(* The two encodings (checked under SpecEncode).                           *)
(*                                                                         *)
(* A JSON decoder for objects whose values are numbers and strings; the    *)
(* \uXXXX escape is not read, neither encoder writes it.                   *)
(***************************************************************************)
JsonBad == [ok |-> FALSE, kind |-> "none", num |-> 0, str |-> <<>>, next |-> 0]

\* The byte an escape letter stands for, -1 for a letter that is no escape.
Unescape(e) ==
    CASE e = 34  -> 34
      [] e = 92  -> 92
      [] e = 47  -> 47
      [] e = 98  -> 8
      [] e = 102 -> 12
      [] e = 110 -> 10
      [] e = 114 -> 13
      [] e = 116 -> 9
      [] OTHER   -> -1

RECURSIVE JsonString(_, _, _)
\* The string whose first byte after the opening quote is s[i], acc being
\* what was read so far: a raw byte below 0x20 and a bad escape are errors.
JsonString(s, i, acc) ==
    IF i > Len(s) THEN JsonBad
    ELSE IF s[i] = 34
      THEN [ok |-> TRUE, kind |-> "str", num |-> 0, str |-> acc, next |-> i + 1]
    ELSE IF s[i] < 32 THEN JsonBad
    ELSE IF s[i] = 92
      THEN IF i + 1 > Len(s) \/ Unescape(s[i + 1]) < 0 THEN JsonBad
           ELSE JsonString(s, i + 2, Append(acc, Unescape(s[i + 1])))
    ELSE JsonString(s, i + 1, Append(acc, s[i]))

RECURSIVE DigitsEnd(_, _)
\* The position after the digits that start at s[i].
DigitsEnd(s, i) ==
    IF i <= Len(s) /\ IsDigit(s[i]) THEN DigitsEnd(s, i + 1) ELSE i

\* The value that starts at s[i]: a string or a number.
JsonValue(s, i) ==
    IF i > Len(s) THEN JsonBad
    ELSE IF s[i] = 34 THEN JsonString(s, i + 1, <<>>)
    ELSE IF IsDigit(s[i])
      THEN [ok |-> TRUE, kind |-> "num", num |-> ReadNat(s, i, 0), str |-> <<>>,
            next |-> DigitsEnd(s, i)]
    ELSE JsonBad

RECURSIVE JsonMembers(_, _, _)
\* The members "key":value that start at s[i], up to the closing brace, which
\* must be the last byte; acc holds the members read so far.
JsonMembers(s, i, acc) ==
    IF i > Len(s) \/ s[i] # 34 THEN [ok |-> FALSE, members |-> <<>>]
    ELSE LET key == JsonString(s, i + 1, <<>>)
         IN  IF ~key.ok \/ key.next > Len(s) \/ s[key.next] # 58
               THEN [ok |-> FALSE, members |-> <<>>]
             ELSE LET val == JsonValue(s, key.next + 1)
                      all == Append(acc, [key |-> key.str, val |-> val])
                  IN  IF ~val.ok \/ val.next > Len(s)
                        THEN [ok |-> FALSE, members |-> <<>>]
                      ELSE IF s[val.next] = 44
                        THEN JsonMembers(s, val.next + 1, all)
                      ELSE IF s[val.next] = 125 /\ val.next = Len(s)
                        THEN [ok |-> TRUE, members |-> all]
                      ELSE [ok |-> FALSE, members |-> <<>>]

\* The object s encodes.
JsonDecode(s) ==
    IF Len(s) < 2 \/ s[1] # 123 THEN [ok |-> FALSE, members |-> <<>>]
    ELSE JsonMembers(s, 2, <<>>)

\* The value of the member key of the decoded object obj.
Field(obj, key) ==
    LET at == {i \in 1..Len(obj.members) : obj.members[i].key = key}
    IN  IF at = {} THEN JsonBad
        ELSE obj.members[CHOOSE i \in at : \A j \in at : i <= j].val

IsNum(v, n) == v.ok /\ v.kind = "num" /\ v.num = n
IsStr(v, str) == v.ok /\ v.kind = "str" /\ v.str = str
\* An id decodes to n as a number or as the string of its digits.
IsId(v, n) == IsNum(v, n) \/ IsStr(v, Dec(n))

KeyTimestamp == <<116, 105, 109, 101, 115, 116, 97, 109, 112>>
KeyType == <<116, 121, 112, 101>>
KeySeverity == <<115, 101, 118, 101, 114, 105, 116, 121>>
KeyActivity == <<97, 99, 116, 105, 118, 105, 116, 121, 95, 117, 117, 105, 100>>
KeySeqId == <<115, 101, 113, 95, 105, 100>>
KeyParent == <<112, 97, 114, 101, 110, 116, 95, 117, 117, 105, 100>>
KeyMessage == <<109, 101, 115, 115, 97, 103, 101>>

\* The call of thread t has just handed its payload to sendto.
JustSent(t) == pc[t] = "ret" /\ udsPath # NoPath /\ Len(sendLog) > 0
\* The payload of that call and, with the file sink working, its line.
LastPayload == sendLog[Len(sendLog)].payload
LastLine == file[Len(file)]

\* The number of line-breaking bytes (LF, CR) of a chunk of the file.
LineBreaks(chunk) ==
    Cardinality({i \in 1..Len(chunk) : chunk[i] = 10 \/ chunk[i] = 13})

\* C17: every entry is one line of the file: the chunk log() appends holds
\* one line break, the one that ends it, whatever the message.
C17_OneLinePerEntry ==
    \A k \in 1..Len(file) :
        /\ LineBreaks(file[k]) = 1
        /\ file[k][Len(file[k])] = 10

\* C18: the payload handed to sendto decodes, as JSON, to the seven fields
\* of the entry and the message of the call.
C18_JsonRoundTrip ==
    \A t \in Threads :
        JustSent(t) =>
            LET obj == JsonDecode(LastPayload)
            IN  /\ obj.ok
                /\ Len(obj.members) = 7
                /\ IsNum(Field(obj, KeyTimestamp), entry[t].timestamp)
                /\ IsStr(Field(obj, KeyType), TypeToString(entry[t].type))
                /\ IsStr(Field(obj, KeySeverity), SevToString(entry[t].sev))
                /\ IsId(Field(obj, KeyActivity), entry[t].activity_uuid)
                /\ IsNum(Field(obj, KeySeqId), entry[t].seq_id)
                /\ IsId(Field(obj, KeyParent), entry[t].parent_uuid)
                /\ IsStr(Field(obj, KeyMessage), args[t].message)

RECURSIVE FullyEscaped(_, _)
\* From position i on, r holds no raw byte below 0x20 and no quote or
\* backslash that is not part of an escape pair.
FullyEscaped(r, i) ==
    IF i > Len(r) THEN TRUE
    ELSE IF r[i] < 32 \/ r[i] = 34 THEN FALSE
    ELSE IF r[i] = 92
      THEN i + 1 <= Len(r) /\ Unescape(r[i + 1]) >= 0 /\ FullyEscaped(r, i + 2)
    ELSE FullyEscaped(r, i + 1)

\* ,"message":"
MessageKey == <<44, 34, 109, 101, 115, 115, 97, 103, 101, 34, 58, 34>>

\* The bytes of the payload between "message":" and the closing "}.
MessageText(payload) ==
    SubSeq(payload, Find(MessageKey, payload) + Len(MessageKey), Len(payload) - 2)

\* C19: in every payload handed to sendto the text of the message member
\* is fully escaped: no raw byte below 0x20, no bare quote, no bare
\* backslash.
C19_MessageFullyEscaped ==
    \A k \in 1..Len(sendLog) : FullyEscaped(MessageText(sendLog[k].payload), 1)

\* The number written right after the first occurrence of key in s, -1 when
\* key does not occur or is not followed by a digit.
NumberAfter(key, s) ==
    LET p == Find(key, s)
    IN  IF p = 0 \/ p + Len(key) > Len(s) \/ ~IsDigit(s[p + Len(key)]) THEN -1
        ELSE ReadNat(s, p + Len(key), 0)

\* "name":
Member(name) == <<34>> \o name \o <<34, 58>>
\* "name":"text",
StringMember(name, text) == Member(name) \o <<34>> \o text \o <<34, 44>>

\* "Activity: " and " Parent: "
ActivityLabel == <<65, 99, 116, 105, 118, 105, 116, 121, 58, 32>>
ParentLabel == <<32, 80, 97, 114, 101, 110, 116, 58, 32>>

\* [INFO], {MID}, Activity: 12345 Seq: 1 Parent: 0 -- Test log message number 1
ScenarioLine ==
    <<91, 73, 78, 70, 79, 93, 44, 32, 123, 77, 73, 68, 125, 44, 32, 65, 99,
      116, 105, 118, 105, 116, 121, 58, 32, 49, 50, 51, 52, 53, 32, 83,
      101, 113, 58, 32, 49, 32, 80, 97, 114, 101, 110, 116, 58, 32, 48, 32,
      45, 45, 32, 84, 101, 115, 116, 32, 108, 111, 103, 32, 109, 101, 115,
      115, 97, 103, 101, 32, 110, 117, 109, 98, 101, 114, 32, 49, 10>>

\* "activity_uuid":12345,"seq_id":1,"parent_uuid":0,
ScenarioIds ==
    <<34, 97, 99, 116, 105, 118, 105, 116, 121, 95, 117, 117, 105, 100, 34,
      58, 49, 50, 51, 52, 53, 44, 34, 115, 101, 113, 95, 105, 100, 34, 58,
      49, 44, 34, 112, 97, 114, 101, 110, 116, 95, 117, 117, 105, 100, 34,
      58, 48, 44>>

\* C20: with both sinks working, the line and the payload of a call carry
\* the kind, severity, activity id, seq and parent id of its entry, the ids
\* being JSON numbers in the payload; and the first call of a fresh
\* instance, log(INFO, MID, "Test log message number 1", 12345), yields the
\* line and the ids of the scenario.
C20_SinksCarryTheEntry ==
    /\ \A t \in Threads :
         (JustSent(t) /\ logFilePath # NoPath /\ logFileOpen) =>
            /\ OccursAt(<<91>> \o TypeToString(entry[t].type) \o <<93, 44, 32, 123>>
                          \o SevToString(entry[t].sev) \o <<125, 44, 32>>,
                        LastLine, 1)
            /\ NumberAfter(ActivityLabel, LastLine) = entry[t].activity_uuid
            /\ NumberAfter(SeqLabel, LastLine) = entry[t].seq_id
            /\ NumberAfter(ParentLabel, LastLine) = entry[t].parent_uuid
            /\ Find(StringMember(KeyType, TypeToString(entry[t].type)),
                    LastPayload) # 0
            /\ Find(StringMember(KeySeverity, SevToString(entry[t].sev)),
                    LastPayload) # 0
            /\ NumberAfter(Member(KeyActivity), LastPayload) = entry[t].activity_uuid
            /\ NumberAfter(Member(KeySeqId), LastPayload) = entry[t].seq_id
            /\ NumberAfter(Member(KeyParent), LastPayload) = entry[t].parent_uuid
    /\ (Len(file) >= 1 /\ Len(sendLog) >= 1 /\ entries[1].activity_uuid = 12345) =>
          /\ file[1] = ScenarioLine
          /\ Find(ScenarioIds, sendLog[1].payload) # 0

(***************************************************************************)
(* The log file as the file system holds it (checked under SpecPaths).     *)
(***************************************************************************)
IsPrefix(a, b) == Len(a) <= Len(b) /\ SubSeq(b, 1, Len(a)) = a

\* C21: no step of log(), of start_server or of the relay worker truncates,
\* overwrites or removes what the log file holds: the file only grows at
\* its end, by one flushed chunk per log() call, and its path keeps naming
\* it; in every configuration of the two paths.
C21_FileIsAppendOnly ==
    [][/\ IsPrefix(file, file')
       /\ linked => linked'
       /\ \A t \in Threads :
            (pc[t] = "fs" /\ pc'[t] = "ws" /\ logFilePath # NoPath /\ logFileOpen)
                => Len(file') = Len(file) + 1]_vars

(***************************************************************************)
(* Shutdown and lifetimes (checked under SpecLifetime).                    *)
(***************************************************************************)
\* C22: once the Logger has been shut down the relay worker comes to an
\* end and the relay address is released: when nothing more can happen,
\* the worker is not left inside its loop and the address is not bound.
C22_WorkerStopsOnShutdown ==
    (destroyed /\ ~ENABLED NextLifetime) =>
        /\ bpc \in {"off", "exit", "crashed"}
        /\ ~bound

\* C23: ~Logger closes the stream and the socket only when no log() call
\* holds the ordering lock.
C23_DestructorWaitsForLog ==
    [][(~destroyed /\ destroyed') => writeMutex = NoOwner]_vars

\* The worker takes a step that uses wsConnections or wsMutex.
WorkerUsesSet == bpc \in {"lock", "iter"} /\ (bpc' # bpc \/ it' # it)
\* The worker takes a step that reads udsPath of the Logger.
WorkerReadsPath == bpc \in {"unlink", "bind"} /\ bpc' # bpc

\* C29: the relay worker uses the subscriber set and its lock only while
\* the web-server thread that owns them is running, and reads udsPath only
\* while the Logger is alive.
C29_NoAccessAfterOwnerGone ==
    [][/\ WorkerUsesSet => webServer = "running"
       /\ WorkerReadsPath => ~destroyed]_vars

(***************************************************************************)
(* The receive loop, bind failures and the subscriber set (SpecBroker),    *)
(* two Brokers on one address (SpecRival).                                 *)
(***************************************************************************)
\* C24: the relay worker never sleeps and retries: it is never at the
\* sleep of the receive loop and has never passed through it.
C24_ReceiveOnlyBlocks == bpc # "sleep" /\ polls = 0

\* The relay worker has reported that bind failed.
BindFailed == Reports("UDS Bridge: Failed to bind") > 0

\* C25: once bind has failed the Broker does not run: from then on no
\* connection is registered, and no payload has been relayed.
C25_BindFailureStopsBroker ==
    [][BindFailed =>
         /\ wsConnections' \subseteq wsConnections
         /\ \A c \in DOMAIN conn : conn[c] = "connecting" => conn'[c] = "connecting"
         /\ relayed' = <<>>]_vars

\* C26: a relay worker inside its receive loop holds the binding of the
\* relay address, and the two workers never hold it together.
C26_AddressExclusivelyOwned ==
    /\ bpc \in {"recv", "sleep", "lock", "iter"} => bound
    /\ rival = "recv" => rivalBound
    /\ ~(bound /\ rivalBound)

\* How far a connection is in its life: CONNECTING (its onopen not yet
\* complete), OPEN (until its onclose completes), CLOSED.
Stage(s) ==
    CASE s \in {"connecting", "opening"} -> 1
      [] s \in {"open", "closing"} -> 2
      [] OTHER -> 3

\* send_text has thrown on connection c.
SendFailed(c) == \E k \in 1..Len(relayed) : <<c, k>> \in failed

\* C27: a connection only moves CONNECTING -> OPEN -> CLOSED, and the live
\* set holds exactly the connections that are OPEN and on which no send has
\* failed.
C27_LiveSetIsExactlyOpen ==
    [][/\ \A c \in DOMAIN conn :
            \/ Stage(conn'[c]) = Stage(conn[c])
            \/ Stage(conn'[c]) = Stage(conn[c]) + 1
       /\ wsConnections' =
            {c \in DOMAIN conn : Stage(conn'[c]) = 2 /\ ~SendFailed(c)'}]_vars

(***************************************************************************)
(* The whole pipeline (checked under SpecFull).                            *)
(***************************************************************************)
\* An operation is under way: a log() call has not returned, a handler is
\* inside its critical section, or the worker is broadcasting.
Busy ==
    \/ \E t \in Threads : pc[t] # "idle"
    \/ \E c \in DOMAIN conn : conn[c] \in {"opening", "closing"}
    \/ bpc \in {"lock", "iter"}

\* C28: the ordering lock is only ever held by a thread inside log(), the
\* subscriber-set lock only by a handler or by the relay worker, a thread
\* waiting for the ordering lock holds nothing, and whenever an operation is
\* under way some step can be taken: there is no deadlock.
C28_LocksIndependentNoDeadlock ==
    /\ writeMutex \in {NoOwner} \cup {<<"thread", t>> : t \in Threads}
    /\ wsMutex \in {NoOwner, Bridge} \cup {<<"handler", c>> : c \in DOMAIN conn}
    /\ \A t \in Threads :
         /\ Holds(t) => pc[t] \in {"stamp", "load", "store", "fs", "ws", "ret"}
         /\ pc[t] = "lock" => ~Holds(t)
    /\ Busy => ENABLED NextFull

\* Both locks are held at once, by a log() call and by the broadcast, while
\* another thread waits for the ordering lock.
C28_Witness ==
    /\ \E t \in Threads : Holds(t)
    /\ wsMutex = Bridge
    /\ \E u \in Threads : pc[u] = "lock"

\* The frames delivered to the connections.
Delivered ==
    UNION {{inbox[c][i].data : i \in DOMAIN inbox[c]} : c \in DOMAIN inbox}

\* C30: a payload whose sendto failed (no receiver was bound) and a
\* datagram broadcast to an empty live set are in no connection's inbox at
\* any later time, while the file holds the line of every entry handed to
\* sendto: the file has a line for each, and when writeToWS returns the line
\* of its entry is at its place (so, the file only growing, is the line of
\* every one).
C30_NoBufferingNoReplay ==
    /\ \A i \in 1..Len(sendLog) :
         sendLog[i].ret < 0 => sendLog[i].payload \notin Delivered
    /\ \A k \in 1..Len(relayed) :
         relayed[k].live = {} =>
            /\ \A c \in DOMAIN inbox : ~Got(c, k)
            /\ CString(Recv(relayed[k].dgram)) \notin Delivered
    /\ Len(file) >= Len(sendLog)
    /\ (\E t \in Threads : pc[t] = "ret") =>
         FieldAfter(SeqLabel, file[Len(sendLog)])
            = FieldAfter(SeqIdKey, sendLog[Len(sendLog)].payload)

\* The first entry was sent before the worker had bound and is lost to the
\* viewer, a later one was delivered, and the file holds both.
C30_Witness ==
    /\ Len(sendLog) >= 2
    /\ sendLog[1].ret < 0
    /\ sendLog[2].payload \in Delivered
    /\ Len(file) >= 2

(***************************************************************************)
(* The viewer page served by the second implementation: ws.onmessage and   *)
(* the Clear button.  JSON.parse is JsonDecode above; the frames of the    *)
(* model are objects of numbers and strings without white space.           *)
(***************************************************************************)
\* log.seq_id: the value of the property, undefined (kind "none") when the
\* object has none; of members with the same key JSON.parse keeps the last.
JsProperty(members, key) ==
    LET at == {i \in 1..Len(members) : members[i].key = key}
    IN  IF at = {} THEN JsonBad
        ELSE members[CHOOSE i \in at : \A j \in at : j <= i].val

\* a === b for undefined, numbers and strings: same type and same value.
StrictEquals(a, b) == a.kind = b.kind /\ a.num = b.num /\ a.str = b.str

\* logStore.some(log => log.seq_id === data.seq_id)
SeqIdPresent(store, data) ==
    \E i \in 1..Len(store) :
        StrictEquals(JsProperty(store[i], KeySeqId), JsProperty(data, KeySeqId))

\* ToNumber of a value, as the subtraction applies it: a number is itself,
\* the empty string is 0, a string of digits is its number, any other string
\* (the strings of the model hold no sign, point or white space) and
\* undefined are NaN.
ToNumber(v) ==
    IF v.kind = "num" THEN [nan |-> FALSE, n |-> v.num]
    ELSE IF v.kind = "str" /\ \A i \in 1..Len(v.str) : IsDigit(v.str[i])
      THEN [nan |-> FALSE, n |-> ReadNat(v.str, 1, 0)]
    ELSE [nan |-> TRUE, n |-> 0]

\* The comparator (a, b) => a.seq_id - b.seq_id as sort reads it: a result
\* of NaN counts as +0.
Compare(a, b) ==
    LET x == ToNumber(JsProperty(a, KeySeqId))
        y == ToNumber(JsProperty(b, KeySeqId))
    IN  IF x.nan \/ y.nan THEN 0 ELSE x.n - y.n

\* The comparator is a consistent comparator for the elements of s: being
\* equal and being less are transitive.
Consistent(s) ==
    \A i, j, k \in 1..Len(s) :
        /\ (Compare(s[i], s[j]) = 0 /\ Compare(s[j], s[k]) = 0)
              => Compare(s[i], s[k]) = 0
        /\ (Compare(s[i], s[j]) < 0 /\ Compare(s[j], s[k]) < 0)
              => Compare(s[i], s[k]) < 0

\* The orders of the elements of s, as rearrangements of its indexes.
Orders(s) ==
    {f \in [1..Len(s) -> 1..Len(s)] :
        \A i, j \in 1..Len(s) : f[i] = f[j] => i = j}

\* Array.prototype.sort with the comparator: the stable ascending order when
\* the comparator is consistent, an implementation-defined order otherwise.
SortOutcomes(s) ==
    LET stable(f) == \A i, j \in 1..Len(s) :
                        i < j => \/ Compare(s[f[i]], s[f[j]]) < 0
                                 \/ /\ Compare(s[f[i]], s[f[j]]) = 0
                                    /\ f[i] < f[j]
    IN  {[i \in 1..Len(s) |-> s[f[i]]] :
            f \in {g \in Orders(s) : Consistent(s) => stable(g)}}

\* ws.onmessage (line 428-446) of the page of connection c, for the next
\* frame of the connection: a frame JSON.parse rejects is caught and
\* dropped, a message whose seq_id is in the store is dropped, any other is
\* pushed and the store is sorted.
OnMessage(c) ==
    /\ viewed[c] < Len(inbox[c])
    /\ viewed' = [viewed EXCEPT ![c] = @ + 1]
    /\ LET data == JsonDecode(inbox[c][viewed[c] + 1].data)
       IN  IF ~data.ok \/ SeqIdPresent(logStore[c], data.members)
             THEN UNCHANGED logStore
             ELSE \E sorted \in SortOutcomes(Append(logStore[c], data.members)) :
                     logStore' = [logStore EXCEPT ![c] = sorted]
    /\ UNCHANGED <<loggerVars, channelVars, brokerVars, lifeVars>>

\* The click handler of clearLogsBtn (line 611-614).
ClearLogs(c) ==
    /\ logStore' = [logStore EXCEPT ![c] = <<>>]
    /\ UNCHANGED viewed
    /\ UNCHANGED <<loggerVars, channelVars, brokerVars, lifeVars>>

\* The entry with sequence number seq of a producer.
EntryOf(seq) == [NoEntry EXCEPT !.type = "INFO", !.sev = "MID", !.seq_id = seq]

\* The messages a","seq_id":"1 and a","seq_id":"x
InjectingOne == <<97, 34, 44, 34, 115, 101, 113, 95, 105, 100, 34, 58, 34, 49>>
InjectingX == <<97, 34, 44, 34, 115, 101, 113, 95, 105, 100, 34, 58, 34, 120>>

\* The datagrams of two producers sharing the Broker: entries 1 and 2 of a
\* producer built from the second implementation, and of a producer built
\* from src/lib/logger.cpp its entry 1, its entries 2 and 3 with the
\* messages InjectingOne and InjectingX, and its entry 4 with the message a"b.
ViewerPayloads ==
    { JsonPayloadEscaped(EntryOf(1), <<104, 105>>),
      JsonPayloadEscaped(EntryOf(2), <<104, 105>>),
      JsonPayload(EntryOf(1), <<121, 111>>),
      JsonPayload(EntryOf(2), InjectingOne),
      JsonPayload(EntryOf(3), InjectingX),
      JsonPayload(EntryOf(4), <<97, 34, 98>>) }

InitViewer ==
    /\ InitLoggerAt({NoPath}, {"/tmp/b.0"})
    /\ udsSock >= 0
    /\ InitBrokerOf(OneViewer)

\* The Broker relaying the datagrams of the producers to one viewer page.
NextViewer ==
    \/ start_server
    \/ BrSocket
    \/ BrUnlink
    \/ BrBind
    \/ BrRecv
    \/ BrLock
    \/ BrSend
    \/ BrDone
    \/ \E c \in OneViewer : OnOpenLock(c)
    \/ \E c \in OneViewer : OnOpenInsert(c)
    \/ \E p \in ViewerPayloads : PublishUpTo(p, Cardinality(ThreeDatagrams))
    \/ \E c \in OneViewer : OnMessage(c)
    \/ \E c \in OneViewer : ClearLogs(c)

SpecViewer == InitViewer /\ [][NextViewer]_vars

\* The seq_id values of the store of connection c, in order.
StoreIds(c) ==
    [i \in 1..Len(logStore[c]) |-> JsProperty(logStore[c][i], KeySeqId)]

\* C31: whatever messages the page has received, its store holds at most
\* one entry per seq_id and the sequence numbers of its entries ascend (two
\* entries that both have a number for seq_id are in the order of these
\* numbers, which differ), and a message whose seq_id is in the store
\* leaves the store as it is.
C31_StoreUniqueSortedDedup ==
    [][\A c \in DOMAIN logStore :
         /\ \A i, j \in 1..Len(logStore'[c]) :
              i < j => /\ ~StrictEquals(StoreIds(c)'[i], StoreIds(c)'[j])
                       /\ (~ToNumber(StoreIds(c)'[i]).nan
                              /\ ~ToNumber(StoreIds(c)'[j]).nan)
                             => ToNumber(StoreIds(c)'[i]).n
                                   < ToNumber(StoreIds(c)'[j]).n
         /\ (/\ viewed'[c] = viewed[c] + 1
             /\ JsonDecode(inbox[c][viewed'[c]].data).ok
             /\ SeqIdPresent(logStore[c],
                             JsonDecode(inbox[c][viewed'[c]].data).members))
               => logStore'[c] = logStore[c]]_vars

====
